---- MODULE Spec2Model ----
(***************************************************************************)
(* Model of the two Azure SQL catalog comparators                          *)
(*   src/sqlserver/compare-databases.py           (mode "full")            *)
(*   src/sqlserver/compare-databases-filtered.py  (mode "filtered")        *)
(* One behaviour of Spec is one run of main(): connect to the source and   *)
(* the target, compare the categories in the order of the script, close    *)
(* the connections, print the summary, exit.  What the catalog queries     *)
(* return and which calls fail are the inputs, drawn with \E.              *)
(* SpecPure applies the pure helpers (compare_lists, the row filters of    *)
(* get_tables / get_procedures / get_functions) to arbitrary row lists.    *)
(***************************************************************************)
EXTENDS Integers, Sequences, FiniteSets, TLC

\* ------------------------------------------------------------------ bounds
\* largest row count a COUNT(*) query answers in the model
MaxCount == 1
\* longest row list handed to the pure helpers in SpecPure
MaxLen == 2

\* Python's None, the value stored for a table whose count query raised
None == -1

\* ------------------------------------------------- strings and their order
\* Every string of the model, in code point order (Python's str order).
StrOrder ==
  << "CHECK", "CK_Users", "CLUSTERED", "IX_Orders", "NONCLUSTERED", "Orders",
     "PK_Orders", "PRIMARY KEY", "SysDiagrams", "UNIQUE", "Users", "V_Open",
     "app", "dbo", "fn_diagramobjects", "sp_creatediagram",
     "sysdiagrams", "usp_load" >>

StrRank(s) == CHOOSE i \in 1..Len(StrOrder) : StrOrder[i] = s

\* Python's tuple comparison a < b for tuples of strings
RECURSIVE TupleLess(_, _)
TupleLess(a, b) ==
  IF Len(a) = 0 THEN Len(b) > 0
  ELSE IF Len(b) = 0 THEN FALSE
  ELSE IF a[1] = b[1] THEN TupleLess(Tail(a), Tail(b))
  ELSE StrRank(a[1]) < StrRank(b[1])

\* faulty variant: the largest tuple first
RECURSIVE sorted_reversed(_)
sorted_reversed(S) ==
  IF S = {} THEN << >>
  ELSE LET m == CHOOSE x \in S : \A y \in S \ {x} : TupleLess(y, x)
       IN  << m >> \o sorted_reversed(S \ {m})

\* Python's sorted(S) for a set of tuples of strings
RECURSIVE sorted(_)
sorted(S) ==
  IF S = {} THEN << >>
  ELSE LET m == CHOOSE x \in S : \A y \in S \ {x} : TupleLess(x, y)
       IN  << m >> \o sorted(S \ {m})

Range(s) == { s[i] : i \in 1..Len(s) }

\* ---------------------------------------------------------- exclusion lists
EXCLUDED_TABLES == { "sysdiagrams" }
EXCLUDED_PROCEDURES ==
  { "sp_alterdiagram", "sp_creatediagram", "sp_dropdiagram",
    "sp_helpdiagramdefinition", "sp_helpdiagrams", "sp_renamediagram",
    "sp_upgraddiagrams" }
EXCLUDED_FUNCTIONS == { "fn_diagramobjects" }

\* ------------------------------------------------------- the catalog readers
\* rows is what cursor.fetchall() returned; each get_* keeps the key columns.
\* str.lower() on the names of the model
Lower(name) ==
  CASE name = "SysDiagrams" -> "sysdiagrams"
    [] name = "Users" -> "users"
    [] name = "Orders" -> "orders"
    [] OTHER -> name

\* faulty variant: the name is matched without regard to letter case
IsExcluded_IgnoreCase(row, names) == Lower(row[2]) \in names

\* "row[1] not in EXCLUDED_...": the match is on the name column alone
IsExcluded(row, names) == row[2] \in names

get_tables(rows) == rows
get_views(rows) == rows
get_procedures(rows) == rows
get_functions(rows) == rows
get_indexes(rows) == rows
\* faulty variant: every constraint is read with the same kind
get_constraints_OneKind(rows) ==
  [i \in 1..Len(rows) |-> << rows[i][1], rows[i][2], rows[i][3], "CHECK" >>]
get_constraints(rows) == rows

\* faulty variant: the filtered get_tables forgets its filter
get_tables_unfiltered(rows) == rows

get_tables_filtered(rows) ==
  SelectSeq(rows, LAMBDA row : ~IsExcluded(row, EXCLUDED_TABLES))
\* faulty variant: the filtered get_procedures forgets its filter
get_procedures_unfiltered(rows) == rows

get_procedures_filtered(rows) ==
  SelectSeq(rows, LAMBDA row : ~IsExcluded(row, EXCLUDED_PROCEDURES))
get_functions_filtered(rows) ==
  SelectSeq(rows, LAMBDA row : ~IsExcluded(row, EXCLUDED_FUNCTIONS))

\* set(list)
set(list) == Range(list)

\* faulty variant: the two sets are returned in the wrong order
compare_lists_swapped(source_list, target_list) ==
  << set(target_list) \ set(source_list), set(source_list) \ set(target_list) >>

\* faulty variant: the extra set is the whole target set
compare_lists_unsubtracted(source_list, target_list) ==
  << set(source_list) \ set(target_list), set(target_list) >>

\* compare_lists(source_list, target_list, item_name): the pair
\* (missing_in_target, extra_in_target)
compare_lists(source_list, target_list) ==
  LET source_set == set(source_list)
      target_set == set(target_list)
  IN  << source_set \ target_set, target_set \ source_set >>


\* dict.get(key): None for an absent key
get(d, k) == IF k \in DOMAIN d THEN d[k] ELSE None

\* d[k] = v on a dict
put(d, k, v) == [ x \in (DOMAIN d) \cup {k} |-> IF x = k THEN v ELSE d[x] ]

\* What one "SELECT COUNT(*)" does: it answers a number or it raises.
CountOutcomes ==
  { [ok |-> FALSE, value |-> 0] } \cup { [ok |-> TRUE, value |-> n] : n \in 0..MaxCount }

\* faulty variant: a count that fails leaves no entry in the dict
RECURSIVE RowCountLoop_FailureOmitted(_, _, _, _)
RowCountLoop_FailureOmitted(tables, outcome, counts, executed) ==
  IF tables = << >> THEN [counts |-> counts, executed |-> executed]
  ELSE LET t == Head(tables)
       IN  RowCountLoop_FailureOmitted(Tail(tables), outcome,
                                       IF outcome[t].ok
                                       THEN put(counts, t, outcome[t].value)
                                       ELSE counts,
                                       Append(executed, t))

\* faulty variant: once a count has failed, every later count fails too
RECURSIVE RowCountLoop_FailureSticks(_, _, _, _)
RowCountLoop_FailureSticks(tables, outcome, counts, executed) ==
  IF tables = << >> THEN [counts |-> counts, executed |-> executed]
  ELSE LET t == Head(tables)
           failed == \E k \in DOMAIN counts : counts[k] = None
           count == IF outcome[t].ok /\ ~failed THEN outcome[t].value ELSE None
       IN  RowCountLoop_FailureSticks(Tail(tables), outcome, put(counts, t, count),
                                      Append(executed, t))

\* faulty variant: the first count that fails ends the loop
RECURSIVE RowCountLoop_AbortOnFailure(_, _, _, _)
RowCountLoop_AbortOnFailure(tables, outcome, counts, executed) ==
  IF tables = << >> THEN [counts |-> counts, executed |-> executed]
  ELSE LET t == Head(tables)
       IN  IF outcome[t].ok
           THEN RowCountLoop_AbortOnFailure(Tail(tables), outcome,
                                            put(counts, t, outcome[t].value),
                                            Append(executed, t))
           ELSE [counts |-> put(counts, t, None), executed |-> Append(executed, t)]

\* get_table_row_counts(cursor, tables); outcome[t] is what the count query
\* of table t does.  Returns the dict, with the tables whose query was
\* executed, in order.
RECURSIVE RowCountLoop(_, _, _, _)
RowCountLoop(tables, outcome, counts, executed) ==
  IF tables = << >> THEN [counts |-> counts, executed |-> executed]
  ELSE LET t == Head(tables)
           count == IF outcome[t].ok THEN outcome[t].value ELSE None
       IN  RowCountLoop(Tail(tables), outcome, put(counts, t, count),
                        Append(executed, t))

get_table_row_counts(tables, outcome) == RowCountLoop(tables, outcome, << >>, << >>)

\* faulty variant: a count that could not be obtained is compared as 0
RECURSIVE RowCountDiffs_NoneAsZero(_, _, _)
RowCountDiffs_NoneAsZero(tables, src_counts, tgt_counts) ==
  IF tables = << >> THEN << >>
  ELSE LET table_key == Head(tables)
           source_count == get(src_counts, table_key)
           target_count == get(tgt_counts, table_key)
           s0 == IF source_count = None THEN 0 ELSE source_count
           t0 == IF target_count = None THEN 0 ELSE target_count
           rest == RowCountDiffs_NoneAsZero(Tail(tables), src_counts, tgt_counts)
       IN  IF s0 # t0
           THEN << << table_key, source_count, target_count >> >> \o rest
           ELSE rest

\* faulty variant: each mismatch is put at the front of the list
RECURSIVE RowCountDiffs_Reversed(_, _, _)
RowCountDiffs_Reversed(tables, src_counts, tgt_counts) ==
  IF tables = << >> THEN << >>
  ELSE LET table_key == Head(tables)
           source_count == get(src_counts, table_key)
           target_count == get(tgt_counts, table_key)
           rest == RowCountDiffs_Reversed(Tail(tables), src_counts, tgt_counts)
       IN  IF source_count # target_count
           THEN rest \o << << table_key, source_count, target_count >> >>
           ELSE rest

\* the loop "for table_key in source_tables" that fills row_count_diffs
RECURSIVE RowCountDiffs(_, _, _)
RowCountDiffs(tables, src_counts, tgt_counts) ==
  IF tables = << >> THEN << >>
  ELSE LET table_key == Head(tables)
           source_count == get(src_counts, table_key)
           target_count == get(tgt_counts, table_key)
           rest == RowCountDiffs(Tail(tables), src_counts, tgt_counts)
       IN  IF source_count # target_count
           THEN << << table_key, source_count, target_count >> >> \o rest
           ELSE rest

\* sum(source_counts.values()) raises TypeError when a value is None
SumRaises(counts) == \E k \in DOMAIN counts : counts[k] = None

\* ------------------------------------------------------------- the findings
\* One record per printed difference line.
Finding(kind, cat, key, detail) ==
  [kind |-> kind, cat |-> cat, key |-> key, detail |-> detail]

RECURSIVE KeyFindings(_, _, _)
KeyFindings(kind, cat, keys) ==
  IF keys = << >> THEN << >>
  ELSE << Finding(kind, cat, Head(keys), << >>) >> \o KeyFindings(kind, cat, Tail(keys))

\* the lines of one category: the missing keys sorted, then the extra keys sorted
CategoryFindings(cat, missing_in_target, extra_in_target) ==
  KeyFindings("missing", cat, sorted(missing_in_target))
    \o KeyFindings("extra", cat, sorted(extra_in_target))

RECURSIVE RowCountFindings(_)
RowCountFindings(diffs) ==
  IF diffs = << >> THEN << >>
  ELSE << Finding("rowcount", "rowcount", Head(diffs)[1],
                  << Head(diffs)[2], Head(diffs)[3] >>) >>
       \o RowCountFindings(Tail(diffs))

\* faulty variant: the index type is part of the key
IndexKey_WithType(idx) == << idx[1], idx[2], idx[3], idx[4] >>

\* the key columns of an index row, and the attributes printed with it
IndexKey(idx) == << idx[1], idx[2], idx[3] >>
IndexDetail(idx) == << idx[4], idx[5], idx[6] >>

\* "for schema, table, idx_name in sorted(missing_indexes)": a line is printed
\* only if the source list has a row for the key
RECURSIVE MissingIndexFindings(_, _)
MissingIndexFindings(keys, source_indexes) ==
  IF keys = << >> THEN << >>
  ELSE LET details == SelectSeq(source_indexes, LAMBDA idx : IndexKey(idx) = Head(keys))
           line == IF details # << >>
                   THEN << Finding("missing", "index", Head(keys), IndexDetail(details[1])) >>
                   ELSE << >>
       IN  line \o MissingIndexFindings(Tail(keys), source_indexes)

\* missing constraints are grouped by constraint type: the types sorted, and
\* within a type the keys in sorted order
RECURSIVE MissingConstraintFindings(_, _)
MissingConstraintFindings(types, missing_constraints) ==
  IF types = << >> THEN << >>
  ELSE LET items == SelectSeq(sorted(missing_constraints),
                              LAMBDA c : c[4] = Head(types)[1])
       IN  KeyFindings("missing", "constraint", items)
             \o MissingConstraintFindings(Tail(types), missing_constraints)

ConstraintTypes(constraints) == sorted({ << c[4] >> : c \in constraints })


\* ------------------------------------------------ what the catalogs can hold
\* The rows the metadata queries can answer, each list in ORDER BY order.
TableRows == { << "dbo", "Orders" >>, << "dbo", "Users" >>, << "dbo", "sysdiagrams" >> }
ViewRows == { << "dbo", "V_Open" >> }
ProcedureRows == { << "dbo", "sp_creatediagram" >>, << "dbo", "usp_load" >> }
FunctionRows == { << "dbo", "fn_diagramobjects" >> }

RowLists(rows) == { sorted(S) : S \in SUBSET rows }

\* one index name, with either set of attributes
IndexLists ==
  { << >>,
    << << "dbo", "Orders", "IX_Orders", "CLUSTERED", TRUE, TRUE >> >>,
    << << "dbo", "Orders", "IX_Orders", "NONCLUSTERED", FALSE, FALSE >> >> }

\* a constraint name is unique in its schema, so PK_Orders has one kind per catalog
ConstraintLists ==
  { << >>,
    << << "dbo", "Orders", "PK_Orders", "PRIMARY KEY" >> >>,
    << << "dbo", "Orders", "PK_Orders", "UNIQUE" >> >>,
    << << "dbo", "Orders", "PK_Orders", "PRIMARY KEY" >>,
       << "dbo", "Users", "CK_Users", "CHECK" >> >> }

Modes == { "full", "filtered" }
Sides == { "source", "target" }
Categories == { "table", "view", "procedure", "function", "index", "constraint" }

\* the step after each category, per script
\* faulty variant: the procedures are compared before the views
NextStep_ProceduresFirst(m, step) ==
  CASE step = "tables"      -> IF m = "filtered" THEN "rowcounts" ELSE "procedures"
    [] step = "rowcounts"   -> "procedures"
    [] step = "procedures"  -> "views"
    [] step = "views"       -> "functions"
    [] step = "functions"   -> IF m = "filtered" THEN "close" ELSE "indexes"
    [] step = "indexes"     -> "constraints"
    [] step = "constraints" -> "close"

\* faulty variant: the full script goes from the functions to the constraints
NextStep_IndexesSkipped(m, step) ==
  CASE step = "tables"      -> IF m = "filtered" THEN "rowcounts" ELSE "views"
    [] step = "rowcounts"   -> "views"
    [] step = "views"       -> "procedures"
    [] step = "procedures"  -> "functions"
    [] step = "functions"   -> IF m = "filtered" THEN "close" ELSE "constraints"
    [] step = "indexes"     -> "constraints"
    [] step = "constraints" -> "close"

NextStep(m, step) ==
  CASE step = "tables"      -> IF m = "filtered" THEN "rowcounts" ELSE "views"
    [] step = "rowcounts"   -> "views"
    [] step = "views"       -> "procedures"
    [] step = "procedures"  -> "functions"
    [] step = "functions"   -> IF m = "filtered" THEN "close" ELSE "indexes"
    [] step = "indexes"     -> "constraints"
    [] step = "constraints" -> "close"

\* the steps that run a category-enumeration query
EnumSteps(m) ==
  IF m = "filtered" THEN { "tables", "views", "procedures", "functions" }
  ELSE { "tables", "views", "procedures", "functions", "indexes", "constraints" }

StepCategory(step) ==
  CASE step = "tables"      -> "table"
    [] step = "views"       -> "view"
    [] step = "procedures"  -> "procedure"
    [] step = "functions"   -> "function"
    [] step = "indexes"     -> "index"
    [] step = "constraints" -> "constraint"

\* -------------------------------------------------------------------- state
VARIABLES
  mode,               \* which script runs
  pc,                 \* the position of the run
  source_conn,        \* "none", "open" or "closed"
  target_conn,
  source_tables,      \* the lists get_tables returned
  target_tables,
  missing,            \* missing_tables, missing_views, ... by category
  extra,              \* extra_tables, extra_views, ... by category
  evaluated,          \* the categories compared so far
  source_counts,      \* the dicts get_table_row_counts returned
  target_counts,
  count_queries,      \* per side, the tables whose COUNT(*) was executed
  row_count_diffs,
  differences_found,
  findings,           \* the difference lines printed so far
  error,              \* << >>, or what made the run stop early
  result,             \* what compare_databases returned: "none", "True", "False", "raised"
  exit_status,        \* the exit status of the process, -1 while it runs
  fetched_diff,       \* history: by category, the rows only one side's query answered
  reads,              \* history: the << side, category >> reads that have returned
  list_a,             \* SpecPure: the two row lists
  list_b,
  applied,            \* SpecPure: the helper applied last
  returned,           \* SpecPure: what it returned
  count_outcome       \* SpecPure: what the count query of each table does

runVars ==
  << mode, pc, source_conn, target_conn, source_tables, target_tables, missing,
     extra, evaluated, source_counts, target_counts, count_queries,
     row_count_diffs, differences_found, findings, error, result, exit_status,
     fetched_diff, reads >>
pureVars == << list_a, list_b, applied, returned, count_outcome >>

\* backup-keyvault-secrets.py: one call of backup_keyvault
VARIABLES
  stage,                  \* the stage backup_keyvault is about to run
  backup_name,            \* the backup_name argument, << >> when not given
  stages_run,             \* history: the stages entered, in order
  secrets_list,           \* how many enabled secrets were listed
  secrets_with_values,    \* how many secret values were retrieved
  temp_file,              \* the plaintext file: "none", "partial", "written", "removed"
  encrypted_content,      \* what encrypt_with_sops returned
  encrypted_backup_name,  \* the blob name, << >> while not computed
  blob,                   \* << >>, or << name, content >> given to upload_blob
  backup_result           \* "none", "True", "False", "raised"

backupVars ==
  << stage, backup_name, stages_run, secrets_list, secrets_with_values, temp_file,
     encrypted_content, encrypted_backup_name, blob, backup_result >>

\* validate-database-integrity.py: one call of run_integrity_checks
VARIABLES
  check,                  \* "connect", "cursor", "check", "close_cursor", "returned"
  check_no,               \* the number of the next check, 1..8
  conn,                   \* "none", "open" or "closed"
  results,                \* the tally: passed, failed, warnings
  outcomes,               \* history: what each check that ran returned
  raised,                 \* history: the except clause of the checks was entered
  checks_result           \* "none", "True", "False"

checkVars == << check, check_no, conn, results, outcomes, raised, checks_result >>

vars == << runVars, pureVars, backupVars, checkVars >>

\* backup_keyvault is not running
BackupIdle ==
  /\ stage = "idle"
  /\ backup_name = << >>
  /\ stages_run = << >>
  /\ secrets_list = 0
  /\ secrets_with_values = 0
  /\ temp_file = "none"
  /\ encrypted_content = "None"
  /\ encrypted_backup_name = << >>
  /\ blob = << >>
  /\ backup_result = "none"

\* run_integrity_checks is not running
ChecksIdle ==
  /\ check = "idle"
  /\ check_no = 1
  /\ conn = "none"
  /\ results = [passed |-> 0, failed |-> 0, warnings |-> 0]
  /\ outcomes = << >>
  /\ raised = FALSE
  /\ checks_result = "none"

NoDiffs == [ c \in Categories |-> {} ]

RunInit(m, start) ==
  /\ mode = m
  /\ pc = start
  /\ source_conn = "none"
  /\ target_conn = "none"
  /\ source_tables = << >>
  /\ target_tables = << >>
  /\ missing = NoDiffs
  /\ extra = NoDiffs
  /\ evaluated = {}
  /\ source_counts = << >>
  /\ target_counts = << >>
  /\ count_queries = [ s \in Sides |-> << >> ]
  /\ row_count_diffs = << >>
  /\ differences_found = FALSE
  /\ findings = << >>
  /\ error = << >>
  /\ result = "none"
  /\ exit_status = -1
  /\ fetched_diff = NoDiffs
  /\ reads = {}

PureInit(a, b) ==
  /\ list_a = a
  /\ list_b = b
  /\ applied = "none"
  /\ returned = << >>
  /\ count_outcome = << >>

Init ==
  /\ \E m \in Modes : RunInit(m, "connect_source")
  /\ PureInit(<< >>, << >>)
  /\ BackupIdle
  /\ ChecksIdle


\* ------------------------------------------------------------------ actions
\* source_conn = create_connection(server, source_db); None when it fails
ConnectSource ==
  /\ pc = "connect_source"
  /\ \E ok \in BOOLEAN :
       IF ok
       THEN /\ source_conn' = "open"
            /\ pc' = "connect_target"
            /\ UNCHANGED << result, error >>
       ELSE /\ result' = "False"
            /\ error' = << "connect", "source" >>
            /\ pc' = "exit"
            /\ UNCHANGED source_conn
  /\ UNCHANGED << mode, target_conn, source_tables, target_tables, missing, extra,
                  evaluated, source_counts, target_counts, count_queries,
                  row_count_diffs, differences_found, findings, exit_status, fetched_diff, reads >>
  /\ UNCHANGED << pureVars, backupVars, checkVars >>

\* faulty variant: the source connection is left open when the target fails
ConnectTarget_SourceLeftOpen ==
  /\ pc = "connect_target"
  /\ \E ok \in BOOLEAN :
       IF ok
       THEN /\ target_conn' = "open"
            /\ pc' = "tables"
            /\ UNCHANGED << result, error >>
       ELSE /\ result' = "False"
            /\ error' = << "connect", "target" >>
            /\ pc' = "exit"
            /\ UNCHANGED target_conn
  /\ UNCHANGED << mode, source_conn, source_tables, target_tables, missing, extra,
                  evaluated, source_counts, target_counts, count_queries,
                  row_count_diffs, differences_found, findings, exit_status,
                  fetched_diff, reads >>
  /\ UNCHANGED << pureVars, backupVars, checkVars >>

\* target_conn = create_connection(server, target_db)
ConnectTarget ==
  /\ pc = "connect_target"
  /\ \E ok \in BOOLEAN :
       IF ok
       THEN /\ target_conn' = "open"
            /\ pc' = "tables"
            /\ UNCHANGED << source_conn, result, error >>
       ELSE /\ source_conn' = "closed"
            /\ result' = "False"
            /\ error' = << "connect", "target" >>
            /\ pc' = "exit"
            /\ UNCHANGED target_conn
  /\ UNCHANGED << mode, source_tables, target_tables, missing, extra, evaluated,
                  source_counts, target_counts, count_queries, row_count_diffs,
                  differences_found, findings, exit_status, fetched_diff, reads >>
  /\ UNCHANGED << pureVars, backupVars, checkVars >>

\* faulty variant: the difference is taken when only the source has been read
BothSides_SourceOnly(cat) == { << "source", cat >> }

\* the source is read first, then the target: both reads of a category
BothSides(cat) == { << side, cat >> : side \in Sides }

\* the rows in exactly one of two answers
SymDiff(a, b) == (set(a) \ set(b)) \cup (set(b) \ set(a))

\* faulty variant: only the missing tables are looked at
TablesMatch_MissingOnly == missing["table"] = {}

\* "if not missing_tables and not extra_tables": the row counts are compared
TablesMatch == missing["table"] = {} /\ extra["table"] = {}

\* the summary's return value: False if differences_found else True
Verdict(found) == IF found THEN "False" ELSE "True"

\* sys.exit(0 if success else 1); an uncaught exception also ends with 1
ExitCode(returned_value) == IF returned_value = "True" THEN 0 ELSE 1

\* the end of every category block: the two sets are kept, the flag is set
\* and the lines are printed when either set is non-empty
Compared(cat, src_rows, tgt_rows, missing_in_target, extra_in_target, lines) ==
  /\ fetched_diff' = [fetched_diff EXCEPT ![cat] = SymDiff(src_rows, tgt_rows)]
  /\ reads' = reads \cup BothSides(cat)
  /\ missing' = [missing EXCEPT ![cat] = missing_in_target]
  /\ extra' = [extra EXCEPT ![cat] = extra_in_target]
  /\ evaluated' = evaluated \cup {cat}
  /\ IF missing_in_target # {} \/ extra_in_target # {}
     THEN /\ differences_found' = TRUE
          /\ findings' = findings \o lines
     ELSE UNCHANGED << differences_found, findings >>
  /\ pc' = NextStep(mode, pc)

\* "Comparing Tables"
Tables ==
  /\ pc = "tables"
  /\ \E src_rows \in RowLists(TableRows), tgt_rows \in RowLists(TableRows) :
       LET st == IF mode = "filtered" THEN get_tables_filtered(src_rows)
                 ELSE get_tables(src_rows)
           tt == IF mode = "filtered" THEN get_tables_filtered(tgt_rows)
                 ELSE get_tables(tgt_rows)
           d == compare_lists(st, tt)
       IN  /\ source_tables' = st
           /\ target_tables' = tt
           /\ Compared("table", src_rows, tgt_rows, d[1], d[2], CategoryFindings("table", d[1], d[2]))
  /\ UNCHANGED << mode, source_conn, target_conn, source_counts, target_counts,
                  count_queries, row_count_diffs, error, result, exit_status >>
  /\ UNCHANGED << pureVars, backupVars, checkVars >>

\* "Comparing Table Row Counts" (filtered script only)
RowCounts ==
  /\ pc = "rowcounts"
  /\ IF TablesMatch
     THEN \E so \in [set(source_tables) -> CountOutcomes],
             to \in [set(target_tables) -> CountOutcomes] :
            LET sc == get_table_row_counts(source_tables, so)
                tc == get_table_row_counts(target_tables, to)
                diffs == RowCountDiffs(source_tables, sc.counts, tc.counts)
            IN  /\ source_counts' = sc.counts
                /\ target_counts' = tc.counts
                /\ reads' = reads \cup BothSides("rowcount")
                /\ count_queries' = [source |-> sc.executed, target |-> tc.executed]
                /\ row_count_diffs' = diffs
                /\ IF diffs # << >>
                   THEN /\ differences_found' = TRUE
                        /\ findings' = findings \o RowCountFindings(diffs)
                        /\ pc' = NextStep(mode, pc)
                        /\ UNCHANGED << error, result >>
                   ELSE /\ UNCHANGED << differences_found, findings >>
                        /\ IF SumRaises(sc.counts)
                           THEN /\ error' = << "sum", "source", "rowcount" >>
                                /\ result' = "raised"
                                /\ pc' = "exit"
                           ELSE /\ pc' = NextStep(mode, pc)
                                /\ UNCHANGED << error, result >>
     ELSE /\ pc' = NextStep(mode, pc)
          /\ UNCHANGED << source_counts, target_counts, count_queries,
                          row_count_diffs, differences_found, findings, error,
                          result, reads >>
  /\ UNCHANGED << mode, source_conn, target_conn, source_tables, target_tables,
                  missing, extra, evaluated, exit_status, fetched_diff >>
  /\ UNCHANGED << pureVars, backupVars, checkVars >>

\* what every category block leaves alone
CategoryFrame ==
  /\ UNCHANGED << mode, source_conn, target_conn, source_tables, target_tables,
                  source_counts, target_counts, count_queries, row_count_diffs,
                  error, result, exit_status >>
  /\ UNCHANGED << pureVars, backupVars, checkVars >>

\* "Comparing Views"
Views ==
  /\ pc = "views"
  /\ \E src_rows \in RowLists(ViewRows), tgt_rows \in RowLists(ViewRows) :
       LET d == compare_lists(get_views(src_rows), get_views(tgt_rows))
       IN  Compared("view", src_rows, tgt_rows, d[1], d[2], CategoryFindings("view", d[1], d[2]))
  /\ CategoryFrame

\* "Comparing Stored Procedures"
Procedures ==
  /\ pc = "procedures"
  /\ \E src_rows \in RowLists(ProcedureRows), tgt_rows \in RowLists(ProcedureRows) :
       LET sp == IF mode = "filtered" THEN get_procedures_filtered(src_rows)
                 ELSE get_procedures(src_rows)
           tp == IF mode = "filtered" THEN get_procedures_filtered(tgt_rows)
                 ELSE get_procedures(tgt_rows)
           d == compare_lists(sp, tp)
       IN  Compared("procedure", src_rows, tgt_rows, d[1], d[2], CategoryFindings("procedure", d[1], d[2]))
  /\ CategoryFrame

\* "Comparing Functions"
Functions ==
  /\ pc = "functions"
  /\ \E src_rows \in RowLists(FunctionRows), tgt_rows \in RowLists(FunctionRows) :
       LET sf == IF mode = "filtered" THEN get_functions_filtered(src_rows)
                 ELSE get_functions(src_rows)
           tf == IF mode = "filtered" THEN get_functions_filtered(tgt_rows)
                 ELSE get_functions(tgt_rows)
           d == compare_lists(sf, tf)
       IN  Compared("function", src_rows, tgt_rows, d[1], d[2], CategoryFindings("function", d[1], d[2]))
  /\ CategoryFrame

\* "Comparing Indexes" (full script only)
Indexes ==
  /\ pc = "indexes"
  /\ \E src_rows \in IndexLists, tgt_rows \in IndexLists :
       LET source_indexes == get_indexes(src_rows)
           target_indexes == get_indexes(tgt_rows)
           source_idx_set == { IndexKey(idx) : idx \in set(source_indexes) }
           target_idx_set == { IndexKey(idx) : idx \in set(target_indexes) }
           missing_indexes == source_idx_set \ target_idx_set
           extra_indexes == target_idx_set \ source_idx_set
       IN  Compared("index", src_rows, tgt_rows, missing_indexes, extra_indexes,
                    MissingIndexFindings(sorted(missing_indexes), source_indexes)
                      \o KeyFindings("extra", "index", sorted(extra_indexes)))
  /\ CategoryFrame

\* "Comparing Constraints" (full script only)
Constraints ==
  /\ pc = "constraints"
  /\ \E src_rows \in ConstraintLists, tgt_rows \in ConstraintLists :
       LET source_const_set == set(get_constraints(src_rows))
           target_const_set == set(get_constraints(tgt_rows))
           missing_constraints == source_const_set \ target_const_set
           extra_constraints == target_const_set \ source_const_set
       IN  Compared("constraint", src_rows, tgt_rows,
                    missing_constraints, extra_constraints,
                    MissingConstraintFindings(ConstraintTypes(missing_constraints),
                                              missing_constraints)
                      \o KeyFindings("extra", "constraint", sorted(extra_constraints)))
  /\ CategoryFrame

\* cursor.execute of a category-enumeration query raises: nothing catches it,
\* so it leaves compare_databases and main
EnumFail ==
  /\ pc \in EnumSteps(mode)
  /\ \E side \in Sides :
       /\ error' = << "query", side, StepCategory(pc) >>
       /\ IF pc = "tables" /\ side = "target"
          THEN \E src_rows \in RowLists(TableRows) :
                 source_tables' = IF mode = "filtered" THEN get_tables_filtered(src_rows)
                                  ELSE get_tables(src_rows)
          ELSE UNCHANGED source_tables
       /\ reads' = IF side = "target"
                   THEN reads \cup { << "source", StepCategory(pc) >> }
                   ELSE reads
  /\ result' = "raised"
  /\ pc' = "exit"
  /\ UNCHANGED << mode, source_conn, target_conn, target_tables, missing, extra,
                  evaluated, source_counts, target_counts, count_queries,
                  row_count_diffs, differences_found, findings, exit_status, fetched_diff >>
  /\ UNCHANGED << pureVars, backupVars, checkVars >>

\* "Close connections", then "Summary": return False if differences_found
\* else True
Close ==
  /\ pc = "close"
  /\ source_conn' = "closed"
  /\ target_conn' = "closed"
  /\ result' = Verdict(differences_found)
  /\ pc' = "exit"
  /\ UNCHANGED << mode, source_tables, target_tables, missing, extra, evaluated,
                  source_counts, target_counts, count_queries, row_count_diffs,
                  differences_found, findings, error, exit_status, fetched_diff, reads >>
  /\ UNCHANGED << pureVars, backupVars, checkVars >>

\* main: sys.exit(0 if success else 1); an uncaught exception ends the
\* interpreter with status 1
Exit ==
  /\ pc = "exit"
  /\ exit_status' = ExitCode(result)
  /\ pc' = "done"
  /\ UNCHANGED << mode, source_conn, target_conn, source_tables, target_tables,
                  missing, extra, evaluated, source_counts, target_counts,
                  count_queries, row_count_diffs, differences_found, findings,
                  error, result, fetched_diff, reads >>
  /\ UNCHANGED << pureVars, backupVars, checkVars >>

Next ==
  \/ ConnectSource
  \/ ConnectTarget
  \/ Tables
  \/ RowCounts
  \/ Views
  \/ Procedures
  \/ Functions
  \/ Indexes
  \/ Constraints
  \/ EnumFail
  \/ Close
  \/ Exit

Spec == Init /\ [][Next]_vars


\* ------------------------------------------- the pure helpers, on any lists
\* Rows for the helpers: the diagram objects, in another schema and in another
\* letter case as well, and an application table.
PureRows ==
  { << "dbo", "sysdiagrams" >>, << "app", "sysdiagrams" >>, << "dbo", "SysDiagrams" >>,
    << "dbo", "sp_creatediagram" >>, << "dbo", "fn_diagramobjects" >>,
    << "dbo", "Users" >>,
    << "dbo", "Users]; DELETE FROM [dbo].[Users" >> }

\* every list of at most n rows: any order, repetitions allowed
ListsUpTo(rows, n) == UNION { [1..k -> rows] : k \in 0..n }

PureIdle == applied = "none"

\* missing, extra = compare_lists(a, b, ...), and the same call with the roles swapped
ApplyCompareLists ==
  /\ pc = "pure"
  /\ PureIdle
  /\ applied' = "compare_lists"
  /\ returned' = [fwd |-> compare_lists(list_a, list_b),
                  rev |-> compare_lists(list_b, list_a)]
  /\ UNCHANGED << list_a, list_b, count_outcome >>
  /\ UNCHANGED << runVars, backupVars, checkVars >>

\* get_tables of the filtered script on the rows list_a
ApplyGetTables ==
  /\ pc = "pure"
  /\ PureIdle
  /\ applied' = "get_tables"
  /\ returned' = get_tables_filtered(list_a)
  /\ UNCHANGED << list_a, list_b, count_outcome >>
  /\ UNCHANGED << runVars, backupVars, checkVars >>

\* get_procedures of the filtered script on the rows list_a
ApplyGetProcedures ==
  /\ pc = "pure"
  /\ PureIdle
  /\ applied' = "get_procedures"
  /\ returned' = get_procedures_filtered(list_a)
  /\ UNCHANGED << list_a, list_b, count_outcome >>
  /\ UNCHANGED << runVars, backupVars, checkVars >>

\* get_functions of the filtered script on the rows list_a
ApplyGetFunctions ==
  /\ pc = "pure"
  /\ PureIdle
  /\ applied' = "get_functions"
  /\ returned' = get_functions_filtered(list_a)
  /\ UNCHANGED << list_a, list_b, count_outcome >>
  /\ UNCHANGED << runVars, backupVars, checkVars >>

\* The text f"SELECT COUNT(*) FROM [{schema}].[{table}]" puts the names
\* between brackets as they are: a "]" inside a name closes the identifier,
\* and the rest of the name is read as SQL.  The statements after the "]":
BracketTail(name) ==
  CASE name = "Users]; DELETE FROM [dbo].[Users" -> << "DELETE" >>
    [] OTHER -> << >>

\* the statements of the batch that counts table t
CountBatch(t) == << "SELECT" >> \o BracketTail(t[1]) \o BracketTail(t[2])

\* the statements of the batches executed for the tables, in order
RECURSIVE Statements(_)
Statements(tables) ==
  IF tables = << >> THEN << >>
  ELSE CountBatch(Head(tables)) \o Statements(Tail(tables))

\* counts = get_table_row_counts(cursor, list_a), each count query doing
\* what count_outcome says
ApplyGetTableRowCounts ==
  /\ pc = "pure"
  /\ PureIdle
  /\ list_b = << >>
  /\ \E o \in [set(list_a) -> CountOutcomes] :
       LET r == get_table_row_counts(list_a, o)
       IN  /\ count_outcome' = o
           /\ returned' = [counts |-> r.counts, executed |-> r.executed,
                           statements |-> Statements(r.executed)]
  /\ applied' = "get_table_row_counts"
  /\ UNCHANGED << list_a, list_b >>
  /\ UNCHANGED << runVars, backupVars, checkVars >>

\* the two lists hold the same tables the same number of times
IsPermutation(a, b) ==
  /\ Len(a) = Len(b)
  /\ \A x \in set(a) \cup set(b) :
       Cardinality({ i \in 1..Len(a) : a[i] = x }) = Cardinality({ i \in 1..Len(b) : b[i] = x })

\* get_table_row_counts(cursor, list_a) and get_table_row_counts(cursor, list_b)
\* for a list_b that holds the tables of list_a in another order, each count
\* query doing what count_outcome says
ApplyGetTableRowCountsPermuted ==
  /\ pc = "pure"
  /\ PureIdle
  /\ list_a # << >>
  /\ IsPermutation(list_a, list_b)
  /\ \E o \in [set(list_a) -> CountOutcomes] :
       /\ count_outcome' = o
       /\ returned' = [first |-> get_table_row_counts(list_a, o).counts,
                       second |-> get_table_row_counts(list_b, o).counts]
  /\ applied' = "get_table_row_counts_permuted"
  /\ UNCHANGED << list_a, list_b >>
  /\ UNCHANGED << runVars, backupVars, checkVars >>

PureInitAll ==
  /\ RunInit("filtered", "pure")
  /\ \E a \in ListsUpTo(PureRows, MaxLen), b \in ListsUpTo(PureRows, MaxLen) :
       PureInit(a, b)
  /\ BackupIdle
  /\ ChecksIdle

PureNext ==
  \/ ApplyCompareLists
  \/ ApplyGetTables
  \/ ApplyGetProcedures
  \/ ApplyGetFunctions
  \/ ApplyGetTableRowCounts
  \/ ApplyGetTableRowCountsPermuted

SpecPure == PureInitAll /\ [][PureNext]_vars


\* ================================================================ properties
\* the run stopped on a connection that did not open or on an enumeration
\* query that raised
FatalError == error # << >> /\ error[1] \in { "connect", "query" }

\* some evaluated category has a missing or an extra key, or a row count differs
AnyDifference ==
  \/ \E c \in evaluated : missing[c] # {} \/ extra[c] # {}
  \/ row_count_diffs # << >>

\* both sides answered the same rows in every category and the same counts
IdenticalSnapshots ==
  /\ \A c \in Categories : fetched_diff[c] = {}
  /\ source_counts = target_counts

\* C1: when both catalogs were read, the verdict is Fail (False is returned)
\* if and only if some evaluated category has a missing or an extra key or a
\* row-count mismatch was recorded, and Pass (True is returned) otherwise.
C1_VerdictIffDifferences ==
  (pc = "done" /\ ~FatalError) =>
    /\ (result = "False" <=> AnyDifference)
    /\ (result = "True" <=> ~AnyDifference)

\* C2: whenever the Table category has a missing or an extra key, no COUNT(*)
\* query has been executed on either connection, no row-count mismatch is
\* recorded and no row-count line is printed.
C2_NoCountsWhenTablesDiffer ==
  (missing["table"] # {} \/ extra["table"] # {}) =>
    /\ count_queries["source"] = << >>
    /\ count_queries["target"] = << >>
    /\ source_counts = << >>
    /\ target_counts = << >>
    /\ row_count_diffs = << >>
    /\ \A i \in 1..Len(findings) : findings[i].kind # "rowcount"

\* Scenario A: source {dbo.Orders, dbo.Users}, target {dbo.Users}: Fail with
\* the one missing table, the row counts skipped.
C2_Witness ==
  /\ pc = "done"
  /\ mode = "filtered"
  /\ source_tables = << << "dbo", "Orders" >>, << "dbo", "Users" >> >>
  /\ target_tables = << << "dbo", "Users" >> >>
  /\ missing["table"] = { << "dbo", "Orders" >> }
  /\ findings = << Finding("missing", "table", << "dbo", "Orders" >>, << >>) >>
  /\ count_queries["source"] = << >>
  /\ result = "False"

\* C3: with equal table sets, whatever counts (None or a number) the count
\* queries give, the filtered comparison ends by returning a verdict, never
\* by raising.
C3_NullCountsReturnVerdict ==
  (pc = "done" /\ mode = "filtered" /\ ~FatalError /\ "table" \in evaluated /\ TablesMatch) =>
    result \in { "True", "False" }

\* C4: a run stopped by a fatal error ends with a returned value and exit
\* status that differ from those of a run that found the databases to differ.
C4_FatalDistinctFromFail ==
  (pc = "done" /\ FatalError) =>
    << result, exit_status >> # << Verdict(TRUE), ExitCode(Verdict(TRUE)) >>

\* C5: when an enumeration query has failed, no finding has been printed and
\* no category has been evaluated.
C5_NoPartialReport ==
  (error # << >> /\ error[1] = "query") => (findings = << >> /\ evaluated = {})

\* C6: for identical snapshots (the same rows in every category, the same
\* count, None or a number, for every table) every missing and extra set is
\* empty, there is no row-count mismatch and the verdict is Pass.
C6_IdenticalSnapshotsPass ==
  (pc = "done" /\ ~FatalError /\ IdenticalSnapshots) =>
    /\ \A c \in Categories : missing[c] = {} /\ extra[c] = {}
    /\ row_count_diffs = << >>
    /\ findings = << >>
    /\ result = "True"

\* x occurs in the list, at any position and any number of times
Occurs(x, list) == \E i \in 1..Len(list) : list[i] = x

\* C7: compare_lists returns as missing exactly the rows that occur in the
\* source list and not in the target list, and as extra exactly the rows that
\* occur in the target list and not in the source list, whatever the order and
\* the repetitions of the lists; so the two sets are disjoint, lie within the
\* source rows and the target rows, and are both empty exactly when the same
\* rows occur in both lists.
C7_CompareListsSetDifference ==
  applied = "compare_lists" =>
    LET missing_in_target == returned.fwd[1]
        extra_in_target == returned.fwd[2]
    IN  /\ missing_in_target \subseteq PureRows
        /\ extra_in_target \subseteq PureRows
        /\ \A x \in PureRows :
             /\ x \in missing_in_target <=> (Occurs(x, list_a) /\ ~Occurs(x, list_b))
             /\ x \in extra_in_target <=> (Occurs(x, list_b) /\ ~Occurs(x, list_a))
        /\ missing_in_target \cap extra_in_target = {}
        /\ \A x \in missing_in_target : Occurs(x, list_a)
        /\ \A x \in extra_in_target : Occurs(x, list_b)
        /\ (missing_in_target = {} /\ extra_in_target = {})
             <=> (\A x \in PureRows : Occurs(x, list_a) <=> Occurs(x, list_b))

\* a repeated row in the source list, the target list out of order
C7_Witness ==
  /\ applied = "compare_lists"
  /\ list_a = << << "dbo", "Users" >>, << "dbo", "Users" >> >>
  /\ list_b = << << "dbo", "sysdiagrams" >>, << "app", "sysdiagrams" >> >>
  /\ returned.fwd = << { << "dbo", "Users" >> },
                       { << "dbo", "sysdiagrams" >>, << "app", "sysdiagrams" >> } >>

\* C8: the missing set of compare_lists(A, B) is the extra set of
\* compare_lists(B, A), and the extra set of the first is the missing set of
\* the second.
C8_SwapSwapsResults ==
  applied = "compare_lists" =>
    /\ returned.fwd[1] = returned.rev[2]
    /\ returned.fwd[2] = returned.rev[1]

\* lists that share a row and each have a row of their own
C8_Witness ==
  /\ applied = "compare_lists"
  /\ returned.fwd[1] # {}
  /\ returned.fwd[2] # {}
  /\ \E x \in PureRows : Occurs(x, list_a) /\ Occurs(x, list_b)

\* the keys the filtered run holds anywhere for a category
TableKeysHeld ==
  missing["table"] \cup extra["table"] \cup set(source_tables) \cup set(target_tables)
    \cup set(count_queries["source"]) \cup set(count_queries["target"])
    \cup (DOMAIN source_counts) \cup (DOMAIN target_counts)
    \cup { d[1] : d \in set(row_count_diffs) }
    \cup { f.key : f \in { g \in set(findings) : g.cat \in { "table", "rowcount" } } }

KeysHeld(cat) ==
  missing[cat] \cup extra[cat]
    \cup { f.key : f \in { g \in set(findings) : g.cat = cat } }

\* C9: in the filtered run no table named in EXCLUDED_TABLES is in a missing
\* or extra set, in the table lists, among the tables counted or in a
\* row-count mismatch, and no procedure of EXCLUDED_PROCEDURES and no function
\* of EXCLUDED_FUNCTIONS is in a missing or extra set or in a printed line.
C9_ExcludedInvisible ==
  mode = "filtered" =>
    /\ \A key \in TableKeysHeld : key[2] \notin EXCLUDED_TABLES
    /\ \A key \in KeysHeld("procedure") : key[2] \notin EXCLUDED_PROCEDURES
    /\ \A key \in KeysHeld("function") : key[2] \notin EXCLUDED_FUNCTIONS

\* the diagram table, procedure and function each exist on one side only, the
\* application tables are counted, and nothing is reported
C9_Witness ==
  /\ mode = "filtered"
  /\ pc = "done"
  /\ fetched_diff["table"] = { << "dbo", "sysdiagrams" >> }
  /\ fetched_diff["procedure"] = { << "dbo", "sp_creatediagram" >> }
  /\ fetched_diff["function"] = { << "dbo", "fn_diagramobjects" >> }
  /\ count_queries["source"] = << << "dbo", "Orders" >>, << "dbo", "Users" >> >>
  /\ findings = << >>
  /\ result = "True"

\* the rows of list_a a filter with the given names keeps
KeepsExactly(names) ==
  /\ \A row \in PureRows :
       Occurs(row, returned) <=> (Occurs(row, list_a) /\ row[2] \notin names)
  /\ (\A i \in 1..Len(list_a) : list_a[i][2] \in names) => returned = << >>

\* C10: each filtered reader drops a row if and only if its name column is in
\* the list of its category: the schema is not looked at (app.sysdiagrams is
\* dropped like dbo.sysdiagrams), the letter case is (dbo.SysDiagrams is
\* kept), a name of another category's list is kept, and rows that are all
\* excluded give the empty list.
C10_ExactNameMatch ==
  /\ applied = "get_tables" =>
       /\ KeepsExactly({ "sysdiagrams" })
       /\ ~Occurs(<< "app", "sysdiagrams" >>, returned)
       /\ Occurs(<< "dbo", "SysDiagrams" >>, list_a) => Occurs(<< "dbo", "SysDiagrams" >>, returned)
       /\ Occurs(<< "dbo", "sp_creatediagram" >>, list_a)
            => Occurs(<< "dbo", "sp_creatediagram" >>, returned)
  /\ applied = "get_procedures" =>
       /\ KeepsExactly(EXCLUDED_PROCEDURES)
       /\ ~Occurs(<< "dbo", "sp_creatediagram" >>, returned)
       /\ Occurs(<< "dbo", "sysdiagrams" >>, list_a) => Occurs(<< "dbo", "sysdiagrams" >>, returned)
  /\ applied = "get_functions" =>
       /\ KeepsExactly({ "fn_diagramobjects" })
       /\ ~Occurs(<< "dbo", "fn_diagramobjects" >>, returned)
       /\ Occurs(<< "dbo", "sysdiagrams" >>, list_a) => Occurs(<< "dbo", "sysdiagrams" >>, returned)

\* the diagram table of another schema is dropped, the one in another letter
\* case is kept
C10_Witness ==
  /\ applied = "get_tables"
  /\ list_a = << << "app", "sysdiagrams" >>, << "dbo", "SysDiagrams" >> >>
  /\ returned = << << "dbo", "SysDiagrams" >> >>

\* the exclusion list of a category (none for views, indexes, constraints)
ExcludedNames(cat) ==
  CASE cat = "table" -> EXCLUDED_TABLES
    [] cat = "procedure" -> EXCLUDED_PROCEDURES
    [] cat = "function" -> EXCLUDED_FUNCTIONS
    [] OTHER -> {}

\* the two catalogs differ, and only in objects whose names are excluded
DifferOnlyInExcluded ==
  /\ \A c \in Categories : \A row \in fetched_diff[c] : row[2] \in ExcludedNames(c)
  /\ \E c \in Categories : fetched_diff[c] # {}

\* every count was obtained and the two sides agree on it
CountsObtainedAndEqual ==
  /\ source_counts = target_counts
  /\ \A k \in DOMAIN source_counts : source_counts[k] # None

\* the printed lines about one object
LinesAbout(cat, key) ==
  { i \in 1..Len(findings) : findings[i].cat = cat /\ findings[i].key = key }

RowCountsRan ==
  mode = "filtered" /\ "table" \in evaluated /\ TablesMatch /\ pc # "rowcounts"

\* C12: when the row counts were compared and, for a table, one side's count
\* is None and the other side's is a number (0 included), a mismatch with
\* that None and that number is recorded for the table, its line is printed,
\* and the run that reads every category returns False.
C12_NullDiffersFromNumber ==
  RowCountsRan =>
    \A t \in set(source_tables) :
      LET source_count == source_counts[t]
          target_count == target_counts[t]
      IN  ((source_count = None) # (target_count = None)) =>
            /\ \E i \in 1..Len(row_count_diffs) :
                 row_count_diffs[i] = << t, source_count, target_count >>
            /\ \E i \in 1..Len(findings) :
                 findings[i] = Finding("rowcount", "rowcount", t,
                                       << source_count, target_count >>)
            /\ differences_found
            /\ (pc = "done" /\ ~FatalError) => result = "False"

\* Scenario E: the count of dbo.Users fails on the source and is 0 on the target
C12_Witness ==
  /\ pc = "done"
  /\ RowCountsRan
  /\ source_tables = << << "dbo", "Users" >> >>
  /\ row_count_diffs = << << << "dbo", "Users" >>, None, 0 >> >>
  /\ source_counts[<< "dbo", "Users" >>] = None
  /\ target_counts[<< "dbo", "Users" >>] = 0
  /\ result = "False"

\* the position of a table in the source list
SourcePosition(t) == CHOOSE p \in 1..Len(source_tables) : source_tables[p] = t

\* C13: when the row counts were compared, the recorded mismatches are the
\* tables of the source list whose two counts are unequal, each once, with
\* its source count and its target count, in the order of the source list;
\* no table with equal counts is recorded; the lines are printed in that order.
C13_MismatchesInSourceOrder ==
  RowCountsRan =>
    /\ \A i \in 1..Len(row_count_diffs) :
         LET t == row_count_diffs[i][1]
         IN  /\ t \in set(source_tables)
             /\ row_count_diffs[i] = << t, source_counts[t], target_counts[t] >>
             /\ source_counts[t] # target_counts[t]
    /\ \A t \in set(source_tables) :
         source_counts[t] # target_counts[t] =>
           Cardinality({ i \in 1..Len(row_count_diffs) : row_count_diffs[i][1] = t }) = 1
    /\ \A i, j \in 1..Len(row_count_diffs) :
         i < j => SourcePosition(row_count_diffs[i][1]) < SourcePosition(row_count_diffs[j][1])
    /\ SelectSeq(findings, LAMBDA f : f.kind = "rowcount") = RowCountFindings(row_count_diffs)

\* both tables mismatch: dbo.Orders is recorded before dbo.Users
C13_Witness ==
  /\ pc = "done"
  /\ source_tables = << << "dbo", "Orders" >>, << "dbo", "Users" >> >>
  /\ row_count_diffs = << << << "dbo", "Orders" >>, 0, 1 >>,
                          << << "dbo", "Users" >>, 1, 0 >> >>
  /\ result = "False"

\* C14: get_table_row_counts executes the count query of every listed table,
\* in list order, whatever the earlier queries did; the dict it returns has
\* one entry for each listed table and no other, None where the query failed
\* and the number the query answered where it did not.
C14_PartialCountFailureTolerated ==
  applied = "get_table_row_counts" =>
    /\ DOMAIN returned.counts = { list_a[i] : i \in 1..Len(list_a) }
    /\ returned.executed = list_a
    /\ \A i \in 1..Len(list_a) :
         LET t == list_a[i]
         IN  IF count_outcome[t].ok
             THEN returned.counts[t] = count_outcome[t].value
             ELSE returned.counts[t] = None

\* the first count fails, the second is still made and its number kept
C14_Witness ==
  /\ applied = "get_table_row_counts"
  /\ list_a = << << "dbo", "sysdiagrams" >>, << "dbo", "Users" >> >>
  /\ ~count_outcome[<< "dbo", "sysdiagrams" >>].ok
  /\ returned.counts[<< "dbo", "sysdiagrams" >>] = None
  /\ returned.counts[<< "dbo", "Users" >>] = 1
  /\ returned.executed = list_a

\* the place of a finding's category in the order the specification declares,
\* and in the order the comparators emit
DeclaredRank(cat) ==
  CASE cat = "table" -> 1 [] cat = "view" -> 2 [] cat = "procedure" -> 3
    [] cat = "function" -> 4 [] cat = "index" -> 5 [] cat = "constraint" -> 6
    [] cat = "rowcount" -> 7

EmittedRank(cat) ==
  CASE cat = "table" -> 1 [] cat = "rowcount" -> 2 [] cat = "view" -> 3
    [] cat = "procedure" -> 4 [] cat = "function" -> 5 [] cat = "index" -> 6
    [] cat = "constraint" -> 7

\* C15 as stated: the findings are emitted in the order tables, views,
\* procedures, functions, indexes, constraints, row counts, so that no
\* row-count mismatch comes before a structural finding.
C15_DeclaredCategoryOrder ==
  \A i, j \in 1..Len(findings) :
    i < j => DeclaredRank(findings[i].cat) <= DeclaredRank(findings[j].cat)

\* C15, amended: the findings are emitted in the order tables, row counts,
\* views, procedures, functions, indexes, constraints: no finding of a later
\* category in that order comes before a finding of an earlier one.
C15_EmittedCategoryOrder ==
  \A i, j \in 1..Len(findings) :
    i < j => EmittedRank(findings[i].cat) <= EmittedRank(findings[j].cat)

\* a filtered run that reported a row-count mismatch and then a view and a
\* procedure difference
C15_Witness ==
  /\ mode = "filtered"
  /\ pc = "done"
  /\ \E i, j, k \in 1..Len(findings) :
       /\ i < j /\ j < k
       /\ findings[i].cat = "rowcount"
       /\ findings[j].cat = "view"
       /\ findings[k].cat = "procedure"

\* the keys of the findings of one kind ("missing", "extra") in one category,
\* in the order emitted
EmittedKeys(cat, kind) ==
  LET lines == SelectSeq(findings, LAMBDA f : f.cat = cat /\ f.kind = kind)
  IN  [i \in 1..Len(lines) |-> lines[i].key]

\* keys in strictly increasing lexicographic order
Increasing(keys) ==
  \A i \in 1..(Len(keys) - 1) : TupleLess(keys[i], keys[i + 1])

\* the key of a constraint with the kind moved to the front
KindFirst(keys) ==
  [i \in 1..Len(keys) |-> << keys[i][4], keys[i][1], keys[i][2], keys[i][3] >>]

\* C16 as stated: in every structural category, missing constraints included,
\* the missing keys and the extra keys are each emitted in lexicographic order
\* of the key tuple.
C16_AllSortedByKey ==
  \A cat \in Categories : \A kind \in { "missing", "extra" } :
    Increasing(EmittedKeys(cat, kind))

\* C16, amended: the missing keys and the extra keys of every structural
\* category are each emitted in lexicographic order of the key tuple, except
\* the missing constraints, which are emitted grouped by constraint kind: the
\* kinds in sorted order, and the keys of one kind in lexicographic order.
C16_SortedByKeyOrGroupedByKind ==
  /\ \A cat \in Categories : \A kind \in { "missing", "extra" } :
       (cat # "constraint" \/ kind # "missing") =>
         Increasing(EmittedKeys(cat, kind))
  /\ Increasing(KindFirst(EmittedKeys("constraint", "missing")))

\* a run that reported two missing tables in key order, and two missing
\* constraints with the CHECK of Users before the PRIMARY KEY of Orders
C16_Witness ==
  /\ mode = "full"
  /\ pc = "done"
  /\ EmittedKeys("table", "missing") = << << "dbo", "Orders" >>, << "dbo", "Users" >> >>
  /\ EmittedKeys("constraint", "missing") =
       << << "dbo", "Users", "CK_Users", "CHECK" >>,
          << "dbo", "Orders", "PK_Orders", "PRIMARY KEY" >> >>

\* schema, table and index name of an index row
NamedIndex(row) == << row[1], row[2], row[3] >>

\* the index rows answered by one side only whose index the other side has
\* too, with other attributes
AttributesDiffer(row) ==
  \E other \in fetched_diff["index"] :
    other # row /\ NamedIndex(other) = NamedIndex(row)

\* C17: once the indexes are compared, if the two index lists differ only in
\* the attributes of indexes that both sides have, no index is missing and
\* none is extra; and every index reported missing has a line that shows the
\* attributes of that index's row in the source list.
C17_IndexAttributesNotCompared ==
  "index" \in evaluated =>
    /\ (\A row \in fetched_diff["index"] : AttributesDiffer(row)) =>
         missing["index"] = {} /\ extra["index"] = {}
    /\ \A key \in missing["index"] :
         \E i \in 1..Len(findings) : \E row \in fetched_diff["index"] :
           /\ NamedIndex(row) = key
           /\ findings[i] = Finding("missing", "index", key,
                                    << row[4], row[5], row[6] >>)

\* IX_Orders is clustered, unique and primary on one side and none of these
\* on the other: nothing is reported and the run passes
C17_Witness ==
  /\ mode = "full"
  /\ pc = "done"
  /\ Cardinality(fetched_diff["index"]) = 2
  /\ \A row \in fetched_diff["index"] : AttributesDiffer(row)
  /\ missing["index"] = {}
  /\ extra["index"] = {}
  /\ findings = << >>
  /\ result = "True"

\* C18: the comparison is read-only: every statement sent to a database is a
\* SELECT (of a metadata view, or the COUNT of a table); stated here for the
\* statements that get_table_row_counts sends for the tables it is given.
C18_OnlySelectsIssued ==
  applied = "get_table_row_counts" =>
    \A i \in 1..Len(returned.statements) : returned.statements[i] = "SELECT"

\* schema, table and constraint name of a constraint row
NamedConstraint(row) == << row[1], row[2], row[3] >>

\* C19: the constraint kind is part of the comparison key: once the
\* constraints are compared, a constraint that both sides have under the same
\* schema, table and name but with different kinds is reported missing with
\* the one kind and extra with the other, each with its own line, and the
\* run that completes returns False.
C19_ConstraintKindInKey ==
  "constraint" \in evaluated =>
    \A row, other \in fetched_diff["constraint"] :
      (row # other /\ NamedConstraint(row) = NamedConstraint(other)) =>
        /\ \/ row \in missing["constraint"] /\ other \in extra["constraint"]
           \/ row \in extra["constraint"] /\ other \in missing["constraint"]
        /\ \E i \in 1..Len(findings) :
             /\ findings[i].cat = "constraint"
             /\ findings[i].key = row
             /\ findings[i].kind = IF row \in missing["constraint"]
                                   THEN "missing" ELSE "extra"
        /\ differences_found
        /\ pc = "done" => result = "False"

\* PK_Orders is a PRIMARY KEY in the source and UNIQUE in the target, and
\* nothing else differs: one line for each, and the run fails
C19_Witness ==
  /\ mode = "full"
  /\ pc = "done"
  /\ missing["constraint"] = { << "dbo", "Orders", "PK_Orders", "PRIMARY KEY" >> }
  /\ extra["constraint"] = { << "dbo", "Orders", "PK_Orders", "UNIQUE" >> }
  /\ findings = << Finding("missing", "constraint",
                           << "dbo", "Orders", "PK_Orders", "PRIMARY KEY" >>, << >>),
                   Finding("extra", "constraint",
                           << "dbo", "Orders", "PK_Orders", "UNIQUE" >>, << >>) >>
  /\ result = "False"
  /\ exit_status = 1

\* the categories both scripts compare
SharedCategories == { "table", "view", "procedure", "function" }

\* the two catalogs answered the same rows in the shared categories
SharedCategoriesAgree == \A c \in SharedCategories : fetched_diff[c] = {}

\* an index or a constraint of one side is absent from the other
IndexOrConstraintDiffers ==
  \E c \in { "index", "constraint" } : missing[c] # {} \/ extra[c] # {}

MaxNameLen == 3
MaxSecrets == 2

\* A backup name is a string; here it is a sequence of pieces, each piece a
\* string in which ".json" does not occur except as the piece ".json" itself,
\* so that ".json" occurs in the name exactly where that piece stands and
\* ".enc.json" exactly where ".enc" is followed by ".json".
NamePieces == { "kv", ".json", ".enc" }
BackupNames == UNION { [1..k -> NamePieces] : k \in 1..MaxNameLen }

JSON == << ".json" >>
ENC_JSON == << ".enc", ".json" >>

\* f"{vault_name}-backup-{timestamp}.json"
GeneratedName == << "kv", ".json" >>

\* name.endswith(suffix)
endswith(name, suffix) ==
  /\ Len(name) >= Len(suffix)
  /\ SubSeq(name, Len(name) - Len(suffix) + 1, Len(name)) = suffix

\* faulty variant: only the first '.json' is replaced
RECURSIVE str_replace_first(_, _, _)
str_replace_first(name, old, new) ==
  IF name = << >> THEN << >>
  ELSE IF << Head(name) >> = old THEN new \o Tail(name)
  ELSE << Head(name) >> \o str_replace_first(Tail(name), old, new)

\* name.replace(old, new) for a one-piece old: every occurrence is replaced
RECURSIVE str_replace(_, _, _)
str_replace(name, old, new) ==
  IF name = << >> THEN << >>
  ELSE IF << Head(name) >> = old THEN new \o str_replace(Tail(name), old, new)
  ELSE << Head(name) >> \o str_replace(Tail(name), old, new)

\* "Add .enc suffix to backup name if not already present"
EncryptedBackupName(name) ==
  IF ~endswith(name, ENC_JSON)
  THEN IF endswith(name, JSON)
       THEN str_replace(name, JSON, ENC_JSON)
       ELSE name \o ENC_JSON
  ELSE name

\* what encrypt_with_sops can return: None, or the stdout of sops
SopsOutputs == { "None", "", "ciphertext" }

\* faulty variant: only None counts as a failed encryption
EncryptionFailed_NoneOnly(content) == content = "None"

\* "if not encrypted_content": None and the empty string
EncryptionFailed(content) == content \in { "None", "" }

\* faulty variant: the temporary file is left behind
Finally_FileKept(file) == file

\* finally: if os.path.exists(temp_path): os.remove(temp_path)
Finally(file) == IF file \in { "written", "partial" } THEN "removed" ELSE file

\* the stages in the order of the code
StageOrder ==
  << "prerequisites", "authentication", "listing", "retrieval", "create_backup",
     "encryption", "upload" >>

\* return value, or raise, of backup_keyvault before the temporary file exists
BackupEnds(value) ==
  /\ backup_result' = value
  /\ stage' = "returned"

BackupInit ==
  /\ stage = "prerequisites"
  /\ backup_name \in BackupNames \cup { << >> }
  /\ stages_run = << >>
  /\ secrets_list = 0
  /\ secrets_with_values = 0
  /\ temp_file = "none"
  /\ encrypted_content = "None"
  /\ encrypted_backup_name = << >>
  /\ blob = << >>
  /\ backup_result = "none"

\* "if not backup_name", then "[1/6] Checking prerequisites"
CheckPrerequisites ==
  /\ stage = "prerequisites"
  /\ backup_name' = IF backup_name = << >> THEN GeneratedName ELSE backup_name
  /\ stages_run' = Append(stages_run, "prerequisites")
  /\ \E sops_installed \in BOOLEAN :
       IF sops_installed
       THEN stage' = "authentication" /\ UNCHANGED backup_result
       ELSE BackupEnds("False")
  /\ UNCHANGED << secrets_list, secrets_with_values, temp_file, encrypted_content,
                  encrypted_backup_name, blob >>
  /\ UNCHANGED << runVars, pureVars, checkVars >>

\* "[2/6] Authenticating to Azure"
Authenticate ==
  /\ stage = "authentication"
  /\ stages_run' = Append(stages_run, "authentication")
  /\ \E credential \in BOOLEAN :
       IF credential
       THEN stage' = "listing" /\ UNCHANGED backup_result
       ELSE BackupEnds("False")
  /\ UNCHANGED << backup_name, secrets_list, secrets_with_values, temp_file,
                  encrypted_content, encrypted_backup_name, blob >>
  /\ UNCHANGED << runVars, pureVars, checkVars >>

\* "[3/6] Listing Key Vault secrets": None when listing raised, else the
\* enabled secrets; "if not secrets_list" takes None and the empty list alike
ListSecrets ==
  /\ stage = "listing"
  /\ stages_run' = Append(stages_run, "listing")
  /\ \E listed \in { None } \cup 0..MaxSecrets :
       IF listed = None \/ listed = 0
       THEN BackupEnds("False") /\ UNCHANGED secrets_list
       ELSE /\ secrets_list' = listed
            /\ stage' = "retrieval"
            /\ UNCHANGED backup_result
  /\ UNCHANGED << backup_name, secrets_with_values, temp_file, encrypted_content,
                  encrypted_backup_name, blob >>
  /\ UNCHANGED << runVars, pureVars, checkVars >>

\* "[4/6] Retrieving secret values": a secret whose value cannot be read is
\* skipped with a warning
RetrieveValues ==
  /\ stage = "retrieval"
  /\ stages_run' = Append(stages_run, "retrieval")
  /\ \E retrieved \in 0..secrets_list :
       /\ secrets_with_values' = retrieved
       /\ IF retrieved = 0
          THEN BackupEnds("False")
          ELSE stage' = "create_backup" /\ UNCHANGED backup_result
  /\ UNCHANGED << backup_name, secrets_list, temp_file, encrypted_content,
                  encrypted_backup_name, blob >>
  /\ UNCHANGED << runVars, pureVars, checkVars >>

\* "[5/6] Creating and encrypting backup": the plaintext JSON is written to a
\* NamedTemporaryFile(delete=False), before the try block; a write that
\* raises leaves the function there
CreateBackup ==
  /\ stage = "create_backup"
  /\ stages_run' = Append(stages_run, "create_backup")
  /\ \E dumped \in BOOLEAN :
       IF dumped
       THEN /\ temp_file' = "written"
            /\ stage' = "encryption"
            /\ UNCHANGED backup_result
       ELSE /\ temp_file' = "partial"
            /\ BackupEnds("raised")
  /\ UNCHANGED << backup_name, secrets_list, secrets_with_values, encrypted_content,
                  encrypted_backup_name, blob >>
  /\ UNCHANGED << runVars, pureVars, checkVars >>

\* the try block is left, by return or by an exception: the finally clause
\* removes the temporary file
BlockEnds(value) ==
  /\ temp_file' = Finally(temp_file)
  /\ BackupEnds(value)

\* encrypt_with_sops(temp_path, sops_config), "if not encrypted_content", and
\* the blob name; an exception raised in the block (a print to a console
\* that cannot encode the tick mark, an interrupt) leaves through finally
Encrypt ==
  /\ stage = "encryption"
  /\ stages_run' = Append(stages_run, "encryption")
  /\ \/ \E content \in SopsOutputs :
          /\ encrypted_content' = content
          /\ IF EncryptionFailed(content)
             THEN BlockEnds("False") /\ UNCHANGED encrypted_backup_name
             ELSE /\ encrypted_backup_name' = EncryptedBackupName(backup_name)
                  /\ stage' = "upload"
                  /\ UNCHANGED << temp_file, backup_result >>
     \/ /\ BlockEnds("raised")
        /\ UNCHANGED << encrypted_content, encrypted_backup_name >>
  /\ UNCHANGED << backup_name, secrets_list, secrets_with_values, blob >>
  /\ UNCHANGED << runVars, pureVars, checkVars >>

\* "[6/6] Uploading to Azure Blob Storage": upload_to_blob_storage returns the
\* blob URL, or None when anything in it raised; an exception raised in the
\* block after the call leaves through finally with the blob stored
Upload ==
  /\ stage = "upload"
  /\ stages_run' = Append(stages_run, "upload")
  /\ \E blob_url \in { "url", "None" }, printed \in BOOLEAN :
       /\ blob' = IF blob_url = "url"
                  THEN << encrypted_backup_name, encrypted_content >>
                  ELSE blob
       /\ IF ~printed THEN BlockEnds("raised")
          ELSE IF blob_url = "None" THEN BlockEnds("False")
          ELSE BlockEnds("True")
  /\ UNCHANGED << backup_name, secrets_list, secrets_with_values, encrypted_content,
                  encrypted_backup_name >>
  /\ UNCHANGED << runVars, pureVars, checkVars >>

BackupInitAll ==
  /\ RunInit("full", "idle")
  /\ PureInit(<< >>, << >>)
  /\ BackupInit
  /\ ChecksIdle

BackupNext ==
  \/ CheckPrerequisites
  \/ Authenticate
  \/ ListSecrets
  \/ RetrieveValues
  \/ CreateBackup
  \/ Encrypt
  \/ Upload

SpecBackup == BackupInitAll /\ [][BackupNext]_vars

\* -------------------------------------------- validate-database-integrity.py
\* the checks of run_integrity_checks, "Check 1" .. "Check 8"
NumChecks == 8

\* what a check function can do: return success, return failure (it catches
\* Exception itself), or let an exception escape (one raised by a print in
\* its except clause, for example)
CheckOutcomes == { "pass", "fail", "raise" }

\* faulty variant: only check 1 counts as failed
FailureCounter_OnlyFirst(n) == IF n = 1 THEN "failed" ELSE "warnings"

\* the counter a check that returns failure adds to: results["failed"] for
\* check 1 and check 5, results["warnings"] for the others
FailureCounter(n) == IF n \in { 1, 5 } THEN "failed" ELSE "warnings"

\* if success: results["passed"] += 1, else the failure counter of check n
Tally(r, n, success) ==
  IF success THEN [r EXCEPT !.passed = @ + 1]
  ELSE IF FailureCounter(n) = "failed" THEN [r EXCEPT !.failed = @ + 1]
  ELSE [r EXCEPT !.warnings = @ + 1]

\* faulty variant: the exception is caught and not counted
HandleUnexpected_NotCounted(r) == r

\* except Exception: results["failed"] += 1
HandleUnexpected(r) == [r EXCEPT !.failed = @ + 1]

\* return True if results["failed"] == 0 else False
ChecksVerdict(r) == IF r.failed = 0 THEN "True" ELSE "False"

\* finally: conn.close(), then the summary and the return
ChecksEnd(r) ==
  /\ results' = r
  /\ conn' = "closed"
  /\ checks_result' = ChecksVerdict(r)
  /\ check' = "returned"

ChecksInit ==
  /\ check = "connect"
  /\ check_no = 1
  /\ conn = "none"
  /\ results = [passed |-> 0, failed |-> 0, warnings |-> 0]
  /\ outcomes = << >>
  /\ raised = FALSE
  /\ checks_result = "none"

\* conn = create_connection(...); "if not conn: return False"
ConnectDatabase ==
  /\ check = "connect"
  /\ \E ok \in BOOLEAN :
       IF ok
       THEN /\ conn' = "open"
            /\ check' = "cursor"
            /\ UNCHANGED checks_result
       ELSE /\ checks_result' = "False"
            /\ check' = "returned"
            /\ UNCHANGED conn
  /\ UNCHANGED << check_no, results, outcomes, raised >>
  /\ UNCHANGED << runVars, pureVars, backupVars >>

\* cursor = conn.cursor(), the first statement of the try block
OpenCursor ==
  /\ check = "cursor"
  /\ \E ok \in BOOLEAN :
       IF ok
       THEN /\ check' = "check"
            /\ UNCHANGED << conn, results, raised, checks_result >>
       ELSE /\ raised' = TRUE
            /\ ChecksEnd(HandleUnexpected(results))
  /\ UNCHANGED << check_no, outcomes >>
  /\ UNCHANGED << runVars, pureVars, backupVars >>

\* "Check n": the check function is called and its result tallied
RunCheck ==
  /\ check = "check"
  /\ \E outcome \in CheckOutcomes :
       /\ outcomes' = Append(outcomes, outcome)
       /\ IF outcome = "raise"
          THEN /\ raised' = TRUE
               /\ ChecksEnd(HandleUnexpected(results))
               /\ UNCHANGED check_no
          ELSE /\ results' = Tally(results, check_no, outcome = "pass")
               /\ check_no' = check_no + 1
               /\ check' = IF check_no = NumChecks THEN "close_cursor" ELSE "check"
               /\ UNCHANGED << conn, raised, checks_result >>
  /\ UNCHANGED << runVars, pureVars, backupVars >>

\* cursor.close(), the last statement of the try block, then finally, the
\* summary and the return
CloseCursor ==
  /\ check = "close_cursor"
  /\ \E ok \in BOOLEAN :
       IF ok
       THEN ChecksEnd(results) /\ UNCHANGED raised
       ELSE raised' = TRUE /\ ChecksEnd(HandleUnexpected(results))
  /\ UNCHANGED << check_no, outcomes >>
  /\ UNCHANGED << runVars, pureVars, backupVars >>

ChecksInitAll ==
  /\ RunInit("full", "idle")
  /\ PureInit(<< >>, << >>)
  /\ BackupIdle
  /\ ChecksInit

ChecksNext ==
  \/ ConnectDatabase
  \/ OpenCursor
  \/ RunCheck
  \/ CloseCursor

SpecChecks == ChecksInitAll /\ [][ChecksNext]_vars
\* both connections have answered the read of category cat
ReadOnBothSides(cat) == << "source", cat >> \in reads /\ << "target", cat >> \in reads

\* the categories of the catalog reads of the running script
ReadCategories == { StepCategory(step) : step \in EnumSteps(mode) }

C22_CountOrderIrrelevant ==
  applied = "get_table_row_counts_permuted" =>
    /\ returned.first = returned.second
    /\ DOMAIN returned.first = { list_a[i] : i \in 1..Len(list_a) }

\* two tables counted in both orders, the count of sysdiagrams failing
C22_Witness ==
  /\ applied = "get_table_row_counts_permuted"
  /\ list_a = << << "dbo", "sysdiagrams" >>, << "dbo", "Users" >> >>
  /\ list_b = << << "dbo", "Users" >>, << "dbo", "sysdiagrams" >> >>
  /\ returned.first[<< "dbo", "sysdiagrams" >>] = None
  /\ returned.first[<< "dbo", "Users" >>] = 1
  /\ returned.second = returned.first

\* C23: when the row counts are reconciled, the keys of each side's count map
\* are that side's tables after the exclusions, every source table has an
\* entry in both maps, and the counts of every recorded mismatch are the
\* entries of the two maps: a None in a mismatch is a stored None, never a
\* key that is absent.
C23_CountKeysAreTables ==
  RowCountsRan =>
    /\ DOMAIN source_counts = { source_tables[i] : i \in 1..Len(source_tables) }
    /\ DOMAIN target_counts = { target_tables[i] : i \in 1..Len(target_tables) }
    /\ \A t \in DOMAIN source_counts \cup DOMAIN target_counts :
         t[2] \notin EXCLUDED_TABLES
    /\ \A i \in 1..Len(source_tables) :
         /\ source_tables[i] \in DOMAIN source_counts
         /\ source_tables[i] \in DOMAIN target_counts
         /\ count_queries["source"][i] = source_tables[i]
    /\ \A i \in 1..Len(row_count_diffs) :
         LET d == row_count_diffs[i]
         IN  /\ d[1] \in DOMAIN source_counts \cap DOMAIN target_counts
             /\ d[2] = source_counts[d[1]]
             /\ d[3] = target_counts[d[1]]

\* the source answered sysdiagrams too: it has no count entry; the count of
\* dbo.Orders failed on the source and is a stored None
C23_Witness ==
  /\ pc = "done"
  /\ RowCountsRan
  /\ fetched_diff["table"] = { << "dbo", "sysdiagrams" >> }
  /\ DOMAIN source_counts = { << "dbo", "Orders" >>, << "dbo", "Users" >> }
  /\ DOMAIN target_counts = { << "dbo", "Orders" >>, << "dbo", "Users" >> }
  /\ source_counts[<< "dbo", "Orders" >>] = None
  /\ row_count_diffs = << << << "dbo", "Orders" >>, None, 1 >> >>

\* C24: when compare_databases has ended, by returning or by raising, no
\* connection it opened is still open.
C24_ConnectionsClosedOnEveryPath ==
  result # "none" => (source_conn # "open" /\ target_conn # "open")

\* no catalog query and no count query has been issued, nothing was compared
NoQueryIssued ==
  /\ reads = {}
  /\ evaluated = {}
  /\ count_queries["source"] = << >>
  /\ count_queries["target"] = << >>
  /\ source_tables = << >>
  /\ target_tables = << >>
  /\ findings = << >>

\* C25: if the source connection cannot be opened, the target connection is
\* never opened; if the target connection cannot be opened, the source
\* connection, which was open, is closed; in both cases compare_databases
\* returns False and has issued no query.
C25_ConnectFailureHandling ==
  /\ (error # << >> /\ error = << "connect", "source" >>) =>
       /\ source_conn = "none"
       /\ target_conn = "none"
       /\ result = "False"
       /\ NoQueryIssued
  /\ (error # << >> /\ error = << "connect", "target" >>) =>
       /\ source_conn = "closed"
       /\ target_conn = "none"
       /\ result = "False"
       /\ NoQueryIssued
  /\ pc = "connect_target" => (source_conn = "open" /\ error = << >>)

\* the target could not be opened: the source is closed again, False, exit 1
C25_Witness ==
  /\ pc = "done"
  /\ error = << "connect", "target" >>
  /\ source_conn = "closed"
  /\ target_conn = "none"
  /\ result = "False"
  /\ exit_status = 1
  /\ NoQueryIssued

\* the stages entered are an initial part of the fixed order
StagesInOrder ==
  /\ Len(stages_run) <= Len(StageOrder)
  /\ \A i \in 1..Len(stages_run) : stages_run[i] = StageOrder[i]

\* C26: the stages of the backup run in the fixed order, each only after all
\* earlier ones succeeded; the upload is invoked only after the encryption
\* returned output that is not empty; what is uploaded is that output, under
\* the encrypted name; a run that returns False has uploaded nothing, and a
\* run returns True only after all stages and with the blob uploaded; a
\* stage that fails ends the run with False.
C26_StagesInOrderUploadEncrypted ==
  /\ StagesInOrder
  /\ \A i \in 1..Len(stages_run) :
       /\ stages_run[i] = "retrieval" => secrets_list > 0
       /\ stages_run[i] = "create_backup" => secrets_with_values > 0
       /\ stages_run[i] = "upload" =>
            (encrypted_content # "None" /\ encrypted_content # "" /\
             encrypted_backup_name # << >>)
  /\ blob # << >> =>
       /\ blob = << encrypted_backup_name, encrypted_content >>
       /\ blob[2] = "ciphertext"
       /\ "upload" = stages_run[Len(stages_run)]
  /\ backup_result = "False" => blob = << >>
  /\ backup_result = "True" => (stages_run = StageOrder /\ blob # << >>)
  /\ (stage = "returned" /\ backup_result # "raised" /\ stages_run # StageOrder) =>
       backup_result = "False"

\* sops ended with status 0 and printed nothing: the run returns False at the
\* encryption stage and nothing is uploaded
C26_Witness ==
  /\ stage = "returned"
  /\ stages_run = SubSeq(StageOrder, 1, 6)
  /\ encrypted_content = ""
  /\ backup_result = "False"
  /\ blob = << >>
  /\ temp_file = "removed"

\* C27: when backup_keyvault has ended after the plaintext file was written
\* in full, the file has been removed, however the run ended: True after the
\* upload, False after a failed encryption or a failed upload, or an
\* exception raised in the block; and while the file exists the run is in
\* that block.
C27_TempFileRemoved ==
  /\ stage = "returned" => temp_file # "written"
  /\ (stage = "returned" /\ Len(stages_run) >= 6) => temp_file = "removed"
  /\ temp_file = "written" => stage \in { "encryption", "upload" }

\* an exception raised in the block after the upload: the file is removed
C27_Witness ==
  /\ stage = "returned"
  /\ backup_result = "raised"
  /\ stages_run = StageOrder
  /\ blob # << >>
  /\ temp_file = "removed"

\* the name with each ".json" in it turned into ".enc.json"
RECURSIVE EveryJsonTurned(_)
EveryJsonTurned(name) ==
  IF name = << >> THEN << >>
  ELSE (IF Head(name) = ".json" THEN << ".enc", ".json" >> ELSE << Head(name) >>)
         \o EveryJsonTurned(Tail(name))

\* C30: for every backup name the blob name ends with ".enc.json": a name
\* that ends with ".enc.json" is used as it is; a name that ends with
\* ".json" has ".json" replaced by ".enc.json", at its end and wherever else
\* it occurs in the name; any other name gets ".enc.json" appended; and the
\* rule applied to the blob name gives the blob name again.
C30_BlobNameEndsEncJson ==
  encrypted_backup_name # << >> =>
    /\ endswith(encrypted_backup_name, << ".enc", ".json" >>)
    /\ IF endswith(backup_name, << ".enc", ".json" >>)
       THEN encrypted_backup_name = backup_name
       ELSE IF endswith(backup_name, << ".json" >>)
       THEN encrypted_backup_name = EveryJsonTurned(backup_name)
       ELSE encrypted_backup_name = backup_name \o << ".enc", ".json" >>
    /\ EncryptedBackupName(encrypted_backup_name) = encrypted_backup_name

\* "kv.json.json" becomes "kv.enc.json.enc.json"
C30_Witness ==
  /\ backup_name = << "kv", ".json", ".json" >>
  /\ encrypted_backup_name = << "kv", ".enc", ".json", ".enc", ".json" >>
  /\ blob = << encrypted_backup_name, "ciphertext" >>

\* how many of the checks that returned gave this outcome, among the checks
\* numbered in ns
Returned(outcome, ns) ==
  Cardinality({ i \in 1..Len(outcomes) : i \in ns /\ outcomes[i] = outcome })

\* C28: in a run whose connection opened: when no unexpected exception was
\* raised, each of the eight checks was tallied once, so that passed + failed
\* + warnings = 8; failed counts the failures of check 1 and check 5, plus
\* one for an unexpected exception, warnings counts the failures of checks
\* 2, 3, 4, 6, 7 and 8, passed counts the successes; and True is returned if
\* and only if failed = 0.
C28_TallyOfEightChecks ==
  (check = "returned" /\ conn # "none") =>
    /\ ~raised =>
         /\ Len(outcomes) = 8
         /\ results.passed + results.failed + results.warnings = 8
    /\ results.passed = Returned("pass", 1..8)
    /\ results.warnings = Returned("fail", { 2, 3, 4, 6, 7, 8 })
    /\ results.failed = Returned("fail", { 1, 5 }) + (IF raised THEN 1 ELSE 0)
    /\ checks_result = "True" <=> results.failed = 0
    /\ checks_result = "False" <=> results.failed # 0

\* check 5 and check 7 fail, nothing else: 6 passed, 1 failed, 1 warning, False
C28_Witness ==
  /\ check = "returned"
  /\ ~raised
  /\ outcomes = << "pass", "pass", "pass", "pass", "fail", "pass", "fail", "pass" >>
  /\ results = [passed |-> 6, failed |-> 1, warnings |-> 1]
  /\ checks_result = "False"

\* C29: the connection, once open, is closed when run_integrity_checks has
\* ended, also when an unexpected exception was raised during the checks;
\* that exception adds one to failed and the run returns False: the
\* function always ends by returning.
C29_ClosedAndExceptionCounted ==
  /\ check = "returned" =>
       /\ conn \in { "none", "closed" }
       /\ checks_result \in { "True", "False" }
  /\ conn = "open" => (check # "returned" /\ checks_result = "none")
  /\ raised =>
       /\ check = "returned"
       /\ conn = "closed"
       /\ results.failed >= 1
       /\ results.passed + results.failed + results.warnings =
            Returned("pass", 1..8) + Returned("fail", 1..8) + 1
       /\ checks_result = "False"

\* check 3 lets an exception escape after two checks passed: one failure,
\* the connection closed, False
C29_Witness ==
  /\ check = "returned"
  /\ raised
  /\ outcomes = << "pass", "pass", "raise" >>
  /\ results = [passed |-> 2, failed |-> 1, warnings |-> 0]
  /\ conn = "closed"
  /\ checks_result = "False"

====
